---- MODULE Spec2Model ----
(***************************************************************************)
(* Model of appscbdashboard.py: the Streamlit session (page, cb_df, dc_df, *)
(* selected_scbs), the upload widgets of the welcome page, the sidebar     *)
(* widgets of the dashboard page, and the analytics helpers.               *)
(*                                                                         *)
(* One action is one user event followed by the complete script run that   *)
(* Streamlit performs for it (router -> welcome_page / dashboard_page,     *)
(* st.rerun() included).                                                   *)
(*                                                                         *)
(* Tables are records [cols, rows]: cols is the ordered column list, rows  *)
(* is the ordered list of rows, each row a function column name -> value.  *)
(* Timestamps are integer ticks, TicksPerDay ticks to a day.               *)
(***************************************************************************)
EXTENDS Integers, Sequences, FiniteSets, TLC

VARIABLES
    page, cb_df, dc_df, selected_scbs,      \* st.session_state
    cb_file, dc_file,                       \* st.file_uploader values
    cb_ok, dc_ok, messages,                 \* last welcome_page run
    threshold, date_option, start_date, end_date,
    remove_inactive_on, mode,               \* dashboard widget values
    scbs, chart,                            \* last dashboard_page run
    fn, arg_df, arg_scbs, arg_num, arg_opt, result   \* helper call record

vars == <<page, cb_df, dc_df, selected_scbs, cb_file, dc_file, cb_ok, dc_ok,
          messages, threshold, date_option, start_date, end_date,
          remove_inactive_on, mode, scbs, chart,
          fn, arg_df, arg_scbs, arg_num, arg_opt, result>>

sessionVars == <<page, cb_df, dc_df, selected_scbs, cb_file, dc_file, cb_ok,
                 dc_ok, messages, threshold, date_option, start_date,
                 end_date, remove_inactive_on, mode, scbs, chart>>

callVars == <<fn, arg_df, arg_scbs, arg_num, arg_opt, result>>

----------------------------------------------------------------------------
(* Bounds of the model *)

MaxRows == 1
\* rows of an uploaded reading file in the session model

MaxValueRows == 2
\* rows of a table handed to apply_threshold or remove_inactive on its own

MaxTimeRows == 3
\* rows of a table handed to the date-range filter on its own

MaxVal == 2
\* largest cell value and threshold in the helper model

TicksPerDay == 2
\* resolution of a timestamp

(* Program constants *)

DefaultThreshold == 200

DaysToday == 0

DaysLast7 == 7

DaysLast15 == 15

----------------------------------------------------------------------------
(* Values *)

None == [none |-> TRUE]

NaN == -1
\* an empty cell

NaT == -1
\* pd.NaT, the timestamp of a row whose Date or Time cell is empty

Unparseable == -2
\* a Date or Time cell that pd.to_datetime cannot parse

Range(s) == {s[i] : i \in DOMAIN s}

SeqUpTo(S, n) == UNION {[1..k -> S] : k \in 0..n}

CbCurrentNames == {"CB_CURRENT_1", "CB_CURRENT_2"}

HasCbPrefix(c) == c \in CbCurrentNames
\* c.startswith("CB_CURRENT") over the column names of the model

Table(cols, rows) == [cols |-> cols, rows |-> rows]

Project(row, cols) == [c \in Range(cols) |-> row[c]]

Without(cols, dropped) == SelectSeq(cols, LAMBDA c : c \notin dropped)

----------------------------------------------------------------------------
(* FILE VALIDATION *)

get_scb_columns(df) == SelectSeq(df.cols, HasCbPrefix)

validate_cb_file(df) ==
    IF ~({"Date", "Time"} \subseteq Range(df.cols))
    THEN [ok |-> FALSE, msg |-> "Missing Date or Time column"]
    ELSE IF get_scb_columns(df) = <<>>
    THEN [ok |-> FALSE, msg |-> "No CB_CURRENT columns found"]
    ELSE [ok |-> TRUE, msg |-> "Valid CB data file"]

validate_dc_file(df) ==
    IF ~({"CB_INDEX", "STRINGS"} \subseteq Range(df.cols))
    THEN [ok |-> FALSE, msg |-> "Missing CB_INDEX or STRINGS column"]
    ELSE IF \E i \in DOMAIN df.rows : df.rows[i]["STRINGS"] = NaN
    THEN [ok |-> FALSE, msg |-> "STRINGS column contains empty values"]
    ELSE [ok |-> TRUE, msg |-> "Valid DC capacity file"]

----------------------------------------------------------------------------
(* DATA LOADERS *)

AtStart == "start"
AtEnd == "end"
\* the two positions of an uploaded file object a whole-file read can see

Raised == [raised |-> TRUE]

\* pd.read_csv(file) if file.name.endswith("csv") else pd.read_excel(file),
\* on the file object at position pos.  read_csv parses from the current
\* position and leaves the object at its end; on an object already at its end
\* it raises EmptyDataError.  read_excel seeks to the start before parsing.
\* A file that is not in its declared format raises in either reader.
ReadTable(file, pos) ==
    IF file.corrupt THEN Raised
    ELSE IF file.ext = "csv" /\ pos = AtEnd THEN Raised
    ELSE [raised |-> FALSE, df |-> Table(file.cols, file.rows), pos |-> AtEnd]

\* pd.to_datetime(Date + " " + Time) of one row
to_datetime(date, time) ==
    IF date = NaN \/ time = NaN THEN NaT ELSE date * TicksPerDay + time

CanParseDatetime(df) ==
    /\ {"Date", "Time"} \subseteq Range(df.cols)
    /\ \A i \in DOMAIN df.rows :
           /\ df.rows[i]["Date"] # Unparseable
           /\ df.rows[i]["Time"] # Unparseable

WithDatetime(df) ==
    LET cols == Without(df.cols, {"Date", "Time"}) \o <<"DATETIME">>
    IN  Table(cols,
              [i \in DOMAIN df.rows |->
                  [c \in Range(cols) |->
                      IF c = "DATETIME"
                      THEN to_datetime(df.rows[i]["Date"], df.rows[i]["Time"])
                      ELSE df.rows[i][c]]])

load_cb_file(file, pos) ==
    LET r == ReadTable(file, pos)
    IN  IF r.raised THEN Raised
        ELSE IF ~CanParseDatetime(r.df) THEN Raised
        ELSE [raised |-> FALSE, df |-> WithDatetime(r.df), pos |-> r.pos]

\* df.set_index("CB_INDEX"): the column becomes the index, every row is kept
SetIndex(df) ==
    LET cols == Without(df.cols, {"CB_INDEX"})
    IN  [index |-> [i \in DOMAIN df.rows |-> df.rows[i]["CB_INDEX"]],
         cols  |-> cols,
         rows  |-> [i \in DOMAIN df.rows |-> Project(df.rows[i], cols)]]

load_dc_file(file, pos) ==
    LET r == ReadTable(file, pos)
    IN  IF r.raised THEN Raised
        ELSE IF "CB_INDEX" \notin Range(r.df.cols) THEN Raised
        ELSE [raised |-> FALSE, df |-> SetIndex(r.df), pos |-> r.pos]

----------------------------------------------------------------------------
(* ANALYTICS HELPERS *)

\* variant: the comparison is not strict
MaskCell_AtLeast(v, t) == IF v >= t THEN 0 ELSE v

\* np.where(cell > threshold, 0, cell)
MaskCell(v, t) == IF v > t THEN 0 ELSE v

MaskColumns(df, chans, t) ==
    Table(df.cols,
          [i \in DOMAIN df.rows |->
              [c \in Range(df.cols) |->
                  IF c \in Range(chans) THEN MaskCell(df.rows[i][c], t)
                  ELSE df.rows[i][c]]])

\* ret is the returned table, arg the caller's table after the call:
\* the function works on df.copy(), so the caller's table is left as it was.
apply_threshold(df, chans, t) ==
    [ret |-> MaskColumns(df, chans, t), arg |-> df]

\* variant: a table without rows has no all-zero column
AllZero_NeedsRow(df, s) ==
    /\ DOMAIN df.rows # {}
    /\ \A i \in DOMAIN df.rows : df.rows[i][s] = 0

AllZero(df, s) == \A i \in DOMAIN df.rows : df.rows[i][s] = 0

remove_inactive(df, chans) == SelectSeq(chans, LAMBDA s : ~AllZero(df, s))

\* Series.max(): empty cells are skipped; NaT when nothing is left
MaxDatetime(df) ==
    LET ts == {df.rows[i]["DATETIME"] : i \in DOMAIN df.rows} \ {NaT}
    IN  IF ts = {} THEN NaT ELSE CHOOSE m \in ts : \A x \in ts : x <= m

DaysOf(option) ==
    CASE option = "Today" -> DaysToday
      [] option = "Last 7 Days" -> DaysLast7
      [] option = "Last 15 Days" -> DaysLast15

\* timedelta(days=days) in ticks
timedelta(days) == days * TicksPerDay

DateOf(ts) == ts \div TicksPerDay

\* variant: the boundary row is dropped
AtLeast_Strict(ts, bound) == ts # NaT /\ bound # NaT /\ ts > bound

\* a comparison with NaT on either side is False
AtLeast(ts, bound) == ts # NaT /\ bound # NaT /\ ts >= bound

\* ts - delta; NaT stays NaT
Before(ts, delta) == IF ts = NaT THEN NaT ELSE ts - delta

\* the date-range block of dashboard_page
FilterByRange(df, option, start, end) ==
    IF option = "Custom"
    THEN Table(df.cols,
               SelectSeq(df.rows, LAMBDA r : /\ DateOf(r["DATETIME"]) >= start
                                             /\ DateOf(r["DATETIME"]) <= end))
    ELSE IF option # "All"
    THEN LET max_dt == MaxDatetime(df)
             days   == DaysOf(option)
         IN  Table(df.cols,
                   SelectSeq(df.rows,
                             LAMBDA r : AtLeast(r["DATETIME"],
                                                Before(max_dt, timedelta(days)))))
    ELSE df

----------------------------------------------------------------------------
(* NORMALIZATION AND CHART *)

\* a plotted value num/den; 0/0 is NaN
Cell(num, den) == [num |-> num, den |-> den]

NaNCell == Cell(0, 0)

\* dc_df.loc[scb, "STRINGS"]: the STRINGS of every row whose index is scb
Loc(dc, scb) ==
    LET hit == SelectSeq([i \in DOMAIN dc.index |-> i],
                         LAMBDA i : dc.index[i] = scb)
    IN  [k \in DOMAIN hit |-> dc.rows[hit[k]]["STRINGS"]]

InIndex(dc, scb) == \E i \in DOMAIN dc.index : dc.index[i] = scb

Column(df, c) == [i \in DOMAIN df.rows |-> df.rows[i][c]]

RawSeries(df, scb) ==
    [name |-> scb, x |-> Column(df, "DATETIME"),
     y |-> [i \in DOMAIN df.rows |-> Cell(df.rows[i][scb], 1)]]

\* plot_df[scb] /= dc_df.loc[scb, "STRINGS"] when loc yields one number
DividedSeries(df, scb, strings) ==
    [name |-> scb, x |-> Column(df, "DATETIME"),
     y |-> [i \in DOMAIN df.rows |-> Cell(df.rows[i][scb], strings)]]

\* the same statement when loc yields a Series labelled scb, scb, ...: the
\* division aligns on labels, no row label of plot_df matches, every value
\* becomes NaN
MisalignedSeries(df, scb) ==
    [name |-> scb, x |-> Column(df, "DATETIME"),
     y |-> [i \in DOMAIN df.rows |-> NaNCell]]

Ambiguous(dc, scb) == InIndex(dc, scb) /\ Len(Loc(dc, scb)) > 1

NormalizedSeries(df, dc, scb) ==
    IF ~InIndex(dc, scb) THEN RawSeries(df, scb)
    ELSE IF Len(Loc(dc, scb)) = 1 THEN DividedSeries(df, scb, Loc(dc, scb)[1])
    ELSE MisalignedSeries(df, scb)

ChartOf(series) == [raised |-> FALSE, series |-> series]

ChartRaised == [raised |-> TRUE, series |-> <<>>]

NoChart == [raised |-> FALSE, series |-> <<>>]

\* the main content of dashboard_page: threshold, view mode, normalization,
\* plot_timeseries.  The set holds every outcome a build can produce: dividing
\* by a Series with repeated labels either raises (in-place reindex on
\* duplicate labels) or yields the all-NaN column.
MainContent(df, dc, chans, t, view) ==
    LET masked == apply_threshold(df, chans, t).ret
    IN  IF view = "Normalized Current"
        THEN {ChartOf([k \in DOMAIN chans |->
                          NormalizedSeries(masked, dc, chans[k])])}
             \cup (IF \E k \in DOMAIN chans : Ambiguous(dc, chans[k])
                   THEN {ChartRaised} ELSE {})
        ELSE {ChartOf([k \in DOMAIN chans |-> RawSeries(masked, chans[k])])}

----------------------------------------------------------------------------
(* Uploaded files of the session model *)

Exts == {"csv", "xlsx"}

CbCols == <<"Date", "Time", "CB_CURRENT_1", "CB_CURRENT_2">>

CbRow(d, t, c1, c2) ==
    [Date |-> d, Time |-> t, CB_CURRENT_1 |-> c1, CB_CURRENT_2 |-> c2]

SessionDates == {0, 1}

CbRows ==
    {CbRow(0, 0, 250, 50), CbRow(1, 0, 0, 50), CbRow(1, 1, 250, 0),
     CbRow(0, 1, 0, 0)}

File(ext, cols, rows, corrupt) ==
    [ext |-> ext, cols |-> cols, rows |-> rows, corrupt |-> corrupt]

Narrow(cols, rows) == [i \in DOMAIN rows |-> Project(rows[i], cols)]

SampleCbRows == <<CbRow(0, 0, 50, 50)>>
\* a one-row reading table laid out like generate_cb_template, both channels
\* below the default threshold

CbFiles ==
    {File("xlsx", CbCols, rows, FALSE) : rows \in SeqUpTo(CbRows, MaxRows)}
    \cup {File("csv", CbCols, SampleCbRows, FALSE)}
    \cup {File("xlsx", cols, Narrow(cols, SampleCbRows), FALSE) :
            cols \in {<<"Date", "CB_CURRENT_1", "CB_CURRENT_2">>,
                      <<"Date", "Time">>}}
    \cup {File("xlsx", cols, Narrow(cols, SampleCbRows), FALSE) :
            cols \in {<<"Date", "Time", "CB_CURRENT_2", "CB_CURRENT_1">>,
                      <<"Date", "Time", "CB_CURRENT_2">>}}
    \cup {File("xlsx", CbCols, <<CbRow(Unparseable, 0, 50, 50)>>, FALSE)}
    \cup {File("xlsx", CbCols, SampleCbRows, TRUE)}

DcCols == <<"CB_INDEX", "STRINGS">>

DcRow(scb, n) == [CB_INDEX |-> scb, STRINGS |-> n]

DcRows == {DcRow("CB_CURRENT_1", 2), DcRow("CB_CURRENT_1", 4)}

\* capacity tables: every list of the rows above up to one row per string count
DcTables == SeqUpTo(DcRows, Cardinality(DcRows))

DcFiles ==
    {File("xlsx", DcCols, rows, FALSE) : rows \in DcTables}
    \cup {File("csv", DcCols, <<DcRow("CB_CURRENT_1", 2)>>, FALSE)}
    \cup {File("xlsx", DcCols, <<DcRow("CB_CURRENT_1", NaN)>>, FALSE)}
    \cup {File("xlsx", <<"CB_INDEX">>,
               Narrow(<<"CB_INDEX">>, <<DcRow("CB_CURRENT_1", 2)>>), FALSE)}

Thresholds == {DefaultThreshold, 20}

DateOptions == {"All", "Today", "Last 7 Days", "Last 15 Days", "Custom"}

ViewModes == {"Raw Current", "Normalized Current"}

----------------------------------------------------------------------------
(* WELCOME PAGE *)

Success(msg) == [kind |-> "success", text |-> msg]

Error(msg) == [kind |-> "error", text |-> msg]

\* variant: the table read for validation is stored before it is loaded
ProcessCb_KeepsPartial(file, old) ==
    IF file = None THEN [df |-> old, ok |-> FALSE, shown |-> <<>>]
    ELSE LET r == ReadTable(file, AtStart)
         IN  IF r.raised
             THEN [df |-> old, ok |-> FALSE,
                   shown |-> <<Error("Failed to read CB file")>>]
             ELSE LET v == validate_cb_file(r.df)
                      l == load_cb_file(file, r.pos)
                  IN  IF ~v.ok
                      THEN [df |-> r.df, ok |-> FALSE, shown |-> <<Error(v.msg)>>]
                      ELSE IF l.raised
                      THEN [df |-> r.df, ok |-> FALSE,
                            shown |-> <<Success(v.msg),
                                        Error("Failed to read CB file")>>]
                      ELSE [df |-> l.df, ok |-> TRUE,
                            shown |-> <<Success(v.msg)>>]

\* the "if cb_file:" block: df is the value of st.session_state.cb_df after it
ProcessCb(file, old) ==
    IF file = None THEN [df |-> old, ok |-> FALSE, shown |-> <<>>]
    ELSE LET r == ReadTable(file, AtStart)
         IN  IF r.raised
             THEN [df |-> old, ok |-> FALSE,
                   shown |-> <<Error("Failed to read CB file")>>]
             ELSE LET v == validate_cb_file(r.df)
                  IN  IF ~v.ok
                      THEN [df |-> old, ok |-> FALSE, shown |-> <<Error(v.msg)>>]
                      ELSE LET l == load_cb_file(file, r.pos)
                           IN  IF l.raised
                               THEN [df |-> old, ok |-> FALSE,
                                     shown |-> <<Success(v.msg),
                                                 Error("Failed to read CB file")>>]
                               ELSE [df |-> l.df, ok |-> TRUE,
                                     shown |-> <<Success(v.msg)>>]

\* the "if dc_file:" block
ProcessDc(file, old) ==
    IF file = None THEN [df |-> old, ok |-> FALSE, shown |-> <<>>]
    ELSE LET r == ReadTable(file, AtStart)
         IN  IF r.raised
             THEN [df |-> old, ok |-> FALSE,
                   shown |-> <<Error("Failed to read DC file")>>]
             ELSE LET v == validate_dc_file(r.df)
                  IN  IF ~v.ok
                      THEN [df |-> old, ok |-> FALSE, shown |-> <<Error(v.msg)>>]
                      ELSE LET l == load_dc_file(file, r.pos)
                           IN  IF l.raised
                               THEN [df |-> old, ok |-> FALSE,
                                     shown |-> <<Success(v.msg),
                                                 Error("Failed to read DC file")>>]
                               ELSE [df |-> l.df, ok |-> TRUE,
                                     shown |-> <<Success(v.msg)>>]

\* variant: one valid upload is enough
ProceedEnabled_Either(cbok, dcok) == cbok \/ dcok

\* disabled=not (cb_ok and dc_ok)
ProceedEnabled(cbok, dcok) == cbok /\ dcok

----------------------------------------------------------------------------
(* DASHBOARD PAGE *)

\* variant: a checkbox the user did not touch comes up checked
Checkbox_Checked(scb, default, toggled) ==
    IF toggled = scb THEN ~default ELSE TRUE

\* st.checkbox(scb, value=scb in selected_scbs) without a key: the widget is
\* identified by its label and default, so it shows its default unless the
\* user toggled it in the event that caused this run
Checkbox(scb, default, toggled) ==
    IF toggled = scb THEN ~default ELSE default

NoToggle == "none"

\* the channels offered for selection
OfferedScbs(df, remove) ==
    LET all == get_scb_columns(df)
    IN  IF remove THEN remove_inactive(df, all) ELSE all

\* the "with st.sidebar:" block up to the Back to Home button.  ev is the
\* button or checkbox the user operated, sel the stored selection before the run.
Sidebar(cbdf, sel, ev, toggled, option, start, end, remove) ==
    IF cbdf = None
    THEN [raised |-> TRUE, df |-> None, scbs |-> <<>>, selected |-> sel]
    ELSE LET df      == FilterByRange(cbdf, option, start, end)
             offered == OfferedScbs(df, remove)
             stored  == IF ev = "Select All" THEN offered
                        ELSE IF ev = "Clear All" THEN <<>>
                        ELSE sel
         IN  [raised |-> FALSE, df |-> df, scbs |-> offered,
              selected |-> SelectSeq(offered,
                              LAMBDA s : Checkbox(s, s \in Range(stored), toggled))]

\* the outcomes of the block below the sidebar
Charts(sb, dcdf, t, view) ==
    IF sb.raised THEN {ChartRaised}
    ELSE MainContent(sb.df, dcdf, sb.selected, t, view)

NoDate == 0
\* value kept for the two date inputs while they are not on the page

\* widgets that are not rendered in a run lose their state
WelcomeWidgetsGone ==
    /\ cb_file' = None /\ dc_file' = None
    /\ cb_ok' = FALSE /\ dc_ok' = FALSE /\ messages' = <<>>

DashboardWidgetsGone ==
    /\ threshold' = DefaultThreshold /\ date_option' = "All"
    /\ start_date' = NoDate /\ end_date' = NoDate
    /\ remove_inactive_on' = FALSE /\ mode' = "Raw Current"
    /\ scbs' = <<>> /\ chart' = NoChart

\* one run of welcome_page with the uploaders holding cbf and dcf and the
\* Proceed button not pressed
WelcomeRun(cbf, dcf) ==
    LET c == ProcessCb(cbf, cb_df)
        d == ProcessDc(dcf, dc_df)
    IN  /\ cb_file' = cbf /\ dc_file' = dcf
        /\ cb_df' = c.df /\ dc_df' = d.df
        /\ cb_ok' = c.ok /\ dc_ok' = d.ok
        /\ messages' = c.shown \o d.shown
        /\ UNCHANGED <<page, selected_scbs, threshold, date_option, start_date,
                       end_date, remove_inactive_on, mode, scbs, chart>>

UploadCb(f) == page = "WELCOME" /\ f # cb_file /\ WelcomeRun(f, dc_file)

UploadDc(f) == page = "WELCOME" /\ f # dc_file /\ WelcomeRun(cb_file, f)

RemoveCb == page = "WELCOME" /\ cb_file # None /\ WelcomeRun(None, dc_file)

RemoveDc == page = "WELCOME" /\ dc_file # None /\ WelcomeRun(cb_file, None)

\* the user presses the enabled Proceed button: welcome_page runs with the
\* same files, sets page and calls st.rerun(); dashboard_page runs with fresh
\* widgets
Proceed ==
    /\ page = "WELCOME"
    /\ ProceedEnabled(cb_ok, dc_ok)
    /\ LET c  == ProcessCb(cb_file, cb_df)
           d  == ProcessDc(dc_file, dc_df)
           sb == Sidebar(c.df, selected_scbs, "none", NoToggle, "All",
                         NoDate, NoDate, FALSE)
       IN  /\ ProceedEnabled(c.ok, d.ok)
           /\ cb_df' = c.df /\ dc_df' = d.df
           /\ page' = "DASHBOARD"
           /\ WelcomeWidgetsGone
           /\ threshold' = DefaultThreshold /\ date_option' = "All"
           /\ start_date' = NoDate /\ end_date' = NoDate
           /\ remove_inactive_on' = FALSE /\ mode' = "Raw Current"
           /\ selected_scbs' = sb.selected /\ scbs' = sb.scbs
           /\ chart' \in Charts(sb, d.df, DefaultThreshold, "Raw Current")

\* one run of dashboard_page that does not leave the page
DashboardRun(ev, toggled, t, option, start, end, remove, view) ==
    LET sb == Sidebar(cb_df, selected_scbs, ev, toggled, option, start, end, remove)
    IN  /\ page = "DASHBOARD"
        /\ threshold' = t /\ date_option' = option
        /\ start_date' = start /\ end_date' = end
        /\ remove_inactive_on' = remove /\ mode' = view
        /\ selected_scbs' = sb.selected /\ scbs' = sb.scbs
        /\ chart' \in Charts(sb, dc_df, t, view)
        /\ UNCHANGED <<page, cb_df, dc_df, cb_file, dc_file, cb_ok, dc_ok,
                       messages>>

Same(ev, toggled) ==
    DashboardRun(ev, toggled, threshold, date_option, start_date, end_date,
                 remove_inactive_on, mode)

SetThreshold(t) ==
    /\ t # threshold
    /\ DashboardRun("none", NoToggle, t, date_option, start_date, end_date,
                    remove_inactive_on, mode)

\* choosing Custom puts the two date inputs on the page, both showing today
SetDateOption(option, today) ==
    /\ option # date_option
    /\ DashboardRun("none", NoToggle, threshold, option,
                    IF option = "Custom" THEN today ELSE NoDate,
                    IF option = "Custom" THEN today ELSE NoDate,
                    remove_inactive_on, mode)

SetStartDate(d) ==
    /\ date_option = "Custom" /\ d # start_date
    /\ DashboardRun("none", NoToggle, threshold, date_option, d, end_date,
                    remove_inactive_on, mode)

SetEndDate(d) ==
    /\ date_option = "Custom" /\ d # end_date
    /\ DashboardRun("none", NoToggle, threshold, date_option, start_date, d,
                    remove_inactive_on, mode)

ToggleRemoveInactive ==
    DashboardRun("none", NoToggle, threshold, date_option, start_date, end_date,
                 ~remove_inactive_on, mode)

SetMode(view) ==
    /\ view # mode
    /\ DashboardRun("none", NoToggle, threshold, date_option, start_date,
                    end_date, remove_inactive_on, view)

SelectAll == Same("Select All", NoToggle)

ClearAll == Same("Clear All", NoToggle)

ToggleScb(scb) == scb \in Range(scbs) /\ Same("none", scb)

\* variant: going home forgets the tables
BackToHome_ClearsTables ==
    LET sb == Sidebar(cb_df, selected_scbs, "Back to Home", NoToggle,
                      date_option, start_date, end_date, remove_inactive_on)
    IN  /\ page = "DASHBOARD"
        /\ ~sb.raised
        /\ selected_scbs' = sb.selected
        /\ page' = "WELCOME"
        /\ cb_df' = None /\ dc_df' = None
        /\ WelcomeWidgetsGone
        /\ DashboardWidgetsGone

\* the sidebar runs to its last line, the selection is stored, then page is
\* set and st.rerun() runs welcome_page with fresh, empty uploaders
BackToHome ==
    LET sb == Sidebar(cb_df, selected_scbs, "Back to Home", NoToggle,
                      date_option, start_date, end_date, remove_inactive_on)
    IN  /\ page = "DASHBOARD"
        /\ ~sb.raised
        /\ selected_scbs' = sb.selected
        /\ page' = "WELCOME"
        /\ UNCHANGED <<cb_df, dc_df>>
        /\ WelcomeWidgetsGone
        /\ DashboardWidgetsGone

----------------------------------------------------------------------------
(* The session *)

NoCall ==
    /\ fn = "none" /\ arg_df = Table(<<>>, <<>>) /\ arg_scbs = <<>>
    /\ arg_num = 0 /\ arg_opt = "All" /\ result = None

\* the "SESSION STATE" block, then the first run of welcome_page
Init ==
    /\ page = "WELCOME" /\ cb_df = None /\ dc_df = None /\ selected_scbs = <<>>
    /\ cb_file = None /\ dc_file = None
    /\ cb_ok = FALSE /\ dc_ok = FALSE /\ messages = <<>>
    /\ threshold = DefaultThreshold /\ date_option = "All"
    /\ start_date = NoDate /\ end_date = NoDate
    /\ remove_inactive_on = FALSE /\ mode = "Raw Current"
    /\ scbs = <<>> /\ chart = NoChart
    /\ NoCall

Next ==
    \/ \E f \in CbFiles : UploadCb(f) /\ UNCHANGED callVars
    \/ \E f \in DcFiles : UploadDc(f) /\ UNCHANGED callVars
    \/ RemoveCb /\ UNCHANGED callVars
    \/ RemoveDc /\ UNCHANGED callVars
    \/ Proceed /\ UNCHANGED callVars
    \/ \E t \in Thresholds : SetThreshold(t) /\ UNCHANGED callVars
    \/ \E o \in DateOptions, d \in SessionDates :
           SetDateOption(o, d) /\ UNCHANGED callVars
    \/ \E d \in SessionDates : SetStartDate(d) /\ UNCHANGED callVars
    \/ \E d \in SessionDates : SetEndDate(d) /\ UNCHANGED callVars
    \/ ToggleRemoveInactive /\ UNCHANGED callVars
    \/ \E v \in ViewModes : SetMode(v) /\ UNCHANGED callVars
    \/ SelectAll /\ UNCHANGED callVars
    \/ ClearAll /\ UNCHANGED callVars
    \/ \E s \in CbCurrentNames : ToggleScb(s) /\ UNCHANGED callVars
    \/ BackToHome /\ UNCHANGED callVars

Spec == Init /\ [][Next]_vars

----------------------------------------------------------------------------
(* The analytics helpers on their own: one call on inputs drawn from the     *)
(* sets below, recorded in fn, arg_df, arg_scbs, arg_num, arg_opt, result.   *)

LoadedCols == <<"CB_CURRENT_1", "CB_CURRENT_2", "DATETIME">>

LoadedRow(c1, c2, ts) ==
    [CB_CURRENT_1 |-> c1, CB_CURRENT_2 |-> c2, DATETIME |-> ts]

Values == 0..MaxVal

ValueTables ==
    {Table(LoadedCols, rows) :
        rows \in SeqUpTo({LoadedRow(a, b, 0) : a, b \in Values}, MaxValueRows)}

\* timestamps on both sides of the 7 and 15 day boundaries below Horizon
Horizon == timedelta(DaysLast15) + 1

Times ==
    {NaT, 0, 1, Horizon - timedelta(DaysLast7) - 1,
     Horizon - timedelta(DaysLast7), Horizon}

TimeTables ==
    {Table(LoadedCols, rows) :
        rows \in SeqUpTo({LoadedRow(a, 0, ts) : a \in {0, 1}, ts \in Times},
                         MaxTimeRows)}

ChannelLists == SeqUpTo(CbCurrentNames, Cardinality(CbCurrentNames))

HelperThresholds == (0 - 1)..MaxVal

RangeModes == {"All", "Today", "Last 7 Days", "Last 15 Days"}

CallApplyThreshold(T, chans, t) ==
    /\ fn = "none"
    /\ fn' = "apply_threshold"
    /\ arg_df' = T /\ arg_scbs' = chans /\ arg_num' = t /\ arg_opt' = "All"
    /\ result' = apply_threshold(T, chans, t)
    /\ UNCHANGED sessionVars

CallRemoveInactive(T, chans) ==
    /\ fn = "none"
    /\ fn' = "remove_inactive"
    /\ arg_df' = T /\ arg_scbs' = chans /\ arg_num' = 0 /\ arg_opt' = "All"
    /\ result' = remove_inactive(T, chans)
    /\ UNCHANGED sessionVars

CallFilterByRange(T, option) ==
    /\ fn = "none"
    /\ fn' = "filter_by_range"
    /\ arg_df' = T /\ arg_scbs' = <<>> /\ arg_num' = 0 /\ arg_opt' = option
    /\ result' = FilterByRange(T, option, NoDate, NoDate)
    /\ UNCHANGED sessionVars

HelperNext ==
    \/ /\ fn = "none"
       /\ \E T \in ValueTables, chans \in ChannelLists, t \in HelperThresholds :
              CallApplyThreshold(T, chans, t)
    \/ /\ fn = "none"
       /\ \E T \in ValueTables, chans \in ChannelLists :
              CallRemoveInactive(T, chans)
    \/ /\ fn = "none"
       /\ \E T \in TimeTables, option \in RangeModes :
              CallFilterByRange(T, option)

HelperSpec == Init /\ [][HelperNext]_vars

----------------------------------------------------------------------------
(* Properties of the session (specification Spec) *)

HasError(shown) == \E i \in DOMAIN shown : shown[i].kind = "error"

RawTable(f) == Table(f.cols, f.rows)

\* a reading file that passes validate_cb_file and whose Date/Time parse
CbWellFormed(f) ==
    /\ ~f.corrupt
    /\ validate_cb_file(RawTable(f)).ok
    /\ CanParseDatetime(RawTable(f))

\* a capacity file that passes validate_dc_file
DcWellFormed(f) == ~f.corrupt /\ validate_dc_file(RawTable(f)).ok

\* a run of welcome_page shows an error for the reading / capacity upload
CbRejected(f) == HasError(ProcessCb(f, None).shown)

DcRejected(f) == HasError(ProcessDc(f, None).shown)

CbUploadStep == page = "WELCOME" /\ cb_file' # None /\ cb_file' # cb_file

DcUploadStep == page = "WELCOME" /\ dc_file' # None /\ dc_file' # dc_file

\* C1: on the dashboard both tables are set, and the Proceed button can be
\* pressed only while the uploaders hold a reading file and a capacity file
\* that both passed validation and were loaded into the session.
C1_DashboardHasTables ==
    /\ page = "DASHBOARD" => cb_df # None /\ dc_df # None
    /\ (ENABLED Proceed) =>
          /\ cb_file # None /\ dc_file # None
          /\ CbWellFormed(cb_file) /\ DcWellFormed(dc_file)
          /\ cb_df = WithDatetime(RawTable(cb_file))
          /\ dc_df = SetIndex(RawTable(dc_file))

C1_Witness ==
    /\ page = "DASHBOARD" /\ cb_df # None /\ dc_df # None
    /\ cb_df.rows # <<>> /\ dc_df.rows # <<>>

\* C2: on the dashboard Back to Home can always be pressed, and the step that
\* leaves the dashboard for the welcome page keeps cb_df and dc_df.
C2_BackToHomeKeepsTables ==
    [][/\ page = "DASHBOARD" => ENABLED BackToHome
       /\ (page = "DASHBOARD" /\ page' = "WELCOME") =>
              (cb_df' = cb_df /\ dc_df' = dc_df)]_vars

C2_Witness ==
    /\ page = "WELCOME" /\ cb_file = None /\ dc_file = None
    /\ cb_df # None /\ dc_df # None

\* C3: an upload for which the run shows an error stores nothing: cb_df and
\* dc_df are as before, the page is still WELCOME, that upload is not ok and
\* the Proceed button stays disabled.
C3_RejectedUploadStoresNothing ==
    [][/\ (CbUploadStep /\ CbRejected(cb_file')) =>
              /\ cb_df' = cb_df /\ dc_df' = dc_df /\ page' = "WELCOME"
              /\ ~cb_ok' /\ ~ProceedEnabled(cb_ok', dc_ok')
              /\ HasError(messages')
       /\ (DcUploadStep /\ DcRejected(dc_file')) =>
              /\ cb_df' = cb_df /\ dc_df' = dc_df /\ page' = "WELCOME"
              /\ ~dc_ok' /\ ~ProceedEnabled(cb_ok', dc_ok')
              /\ HasError(messages')]_vars

C3_Witness ==
    /\ page = "WELCOME" /\ cb_df # None /\ dc_df # None
    /\ cb_file # None /\ ~cb_ok /\ HasError(messages)
    /\ dc_file # None /\ dc_ok

\* C4: every upload of a well-formed file, CSV or spreadsheet, stores the
\* loaded table (the second read of the file object yields the table of the
\* first) and marks the upload ok.
C4_SuccessfulUploadStores ==
    [][/\ (CbUploadStep /\ CbWellFormed(cb_file')) =>
              (cb_df' = WithDatetime(RawTable(cb_file')) /\ cb_ok')
       /\ (DcUploadStep /\ DcWellFormed(dc_file')) =>
              (dc_df' = SetIndex(RawTable(dc_file')) /\ dc_ok')]_vars

\* the STRINGS of the last row of the uploaded capacity file f whose CB_INDEX
\* is scb
LaterStrings(f, scb) ==
    LET hit == {i \in DOMAIN f.rows : f.rows[i]["CB_INDEX"] = scb}
        last == CHOOSE i \in hit : \A j \in hit : j <= i
    IN  f.rows[last]["STRINGS"]

\* the table the chart is drawn from: date range, then threshold
ChartedTable ==
    apply_threshold(FilterByRange(cb_df, date_option, start_date, end_date),
                    selected_scbs, threshold).ret

\* C8: a channel identifier that occurs in several rows of the capacity file
\* maps to one string count after loading, that of the later row, and the
\* normalized view divides the channel by it without an error.
C8_LaterDuplicateWins ==
    /\ (page = "WELCOME" /\ dc_ok) =>
          \A scb \in CbCurrentNames :
              (\E i \in DOMAIN dc_file.rows : dc_file.rows[i]["CB_INDEX"] = scb)
                  => Loc(dc_df, scb) = <<LaterStrings(dc_file, scb)>>
    /\ (page = "DASHBOARD" /\ mode = "Normalized Current") =>
          /\ ~chart.raised
          /\ \A k \in DOMAIN selected_scbs :
                 InIndex(dc_df, selected_scbs[k]) =>
                     chart.series[k] =
                         DividedSeries(ChartedTable, selected_scbs[k],
                             Loc(dc_df, selected_scbs[k])
                                 [Len(Loc(dc_df, selected_scbs[k]))])

\* a run caused by Select All, Clear All or one channel checkbox
ExplicitSelection ==
    SelectAll \/ ClearAll \/ \E s \in CbCurrentNames : ToggleScb(s)

\* C9 as stated: a step that is not an explicit selection action leaves the
\* set of selected channels as it was.
C9_SelectionOnlyByExplicitActions ==
    [][~ExplicitSelection => Range(selected_scbs') = Range(selected_scbs)]_vars

\* C9 amended: a step that is not an explicit selection action never adds a
\* channel; on the dashboard it keeps exactly the selected channels that the
\* run still offers, and on the way back to the welcome page and on the
\* welcome page it keeps them all.
C9_SelectionRestrictedToOffered ==
    [][~ExplicitSelection =>
          Range(selected_scbs') =
              IF page' = "DASHBOARD"
              THEN Range(selected_scbs) \cap Range(scbs')
              ELSE Range(selected_scbs)]_vars

C9_Witness ==
    /\ page = "DASHBOARD" /\ remove_inactive_on
    /\ threshold # DefaultThreshold /\ mode = "Normalized Current"
    /\ selected_scbs # <<>>
    /\ Len(scbs) < Len(get_scb_columns(cb_df))

\* C10: with Remove Inactive SCBs on, a channel that is all zero in the
\* date-range window once the values above the threshold are replaced by zero
\* is neither offered for selection nor charted.
C10_ThresholdBeforeInactive ==
    (page = "DASHBOARD" /\ remove_inactive_on) =>
        \A c \in Range(get_scb_columns(cb_df)) :
            LET window == FilterByRange(cb_df, date_option, start_date, end_date)
            IN  AllZero(apply_threshold(window, <<c>>, threshold).ret, c)
                    => (c \notin Range(scbs) /\ c \notin Range(selected_scbs))

----------------------------------------------------------------------------
(* Properties of the helpers (specification HelperSpec) *)

Count(seq, x) == Cardinality({i \in DOMAIN seq : seq[i] = x})

IsSubsequence(a, b) ==
    \E f \in [DOMAIN a -> DOMAIN b] :
        /\ \A i, j \in DOMAIN a : i < j => f[i] < f[j]
        /\ \A i \in DOMAIN a : a[i] = b[f[i]]

\* C5: apply_threshold returns a table of the same shape in which a cell of a
\* selected channel is 0 when the input cell is strictly greater than the
\* threshold and the input cell otherwise, every other cell is the input
\* cell, and the table passed in is left as it was.
C5_ApplyThreshold ==
    fn = "apply_threshold" =>
        /\ result.ret.cols = arg_df.cols
        /\ DOMAIN result.ret.rows = DOMAIN arg_df.rows
        /\ \A i \in DOMAIN arg_df.rows, c \in Range(arg_df.cols) :
               result.ret.rows[i][c] =
                   IF c \in Range(arg_scbs) /\ arg_df.rows[i][c] > arg_num
                   THEN 0 ELSE arg_df.rows[i][c]
        /\ result.arg = arg_df

C5_Witness ==
    /\ fn = "apply_threshold" /\ arg_scbs = <<"CB_CURRENT_1">> /\ arg_num > 0
    /\ \E i, j \in DOMAIN arg_df.rows :
           /\ arg_df.rows[i]["CB_CURRENT_1"] = arg_num
           /\ result.ret.rows[i]["CB_CURRENT_1"] = arg_num
           /\ arg_df.rows[j]["CB_CURRENT_1"] > arg_num
           /\ result.ret.rows[j]["CB_CURRENT_1"] = 0
           /\ arg_df.rows[j]["CB_CURRENT_2"] > arg_num
           /\ result.ret.rows[j]["CB_CURRENT_2"] > arg_num

\* C6: remove_inactive returns the channels of the list that have a non-zero
\* value in the table, in the order and number of the list; a channel whose
\* column is all zero, and every channel of a table without rows, is left out.
C6_RemoveInactive ==
    fn = "remove_inactive" =>
        /\ IsSubsequence(result, arg_scbs)
        /\ \A s \in CbCurrentNames :
               Count(result, s) =
                   IF \E i \in DOMAIN arg_df.rows : arg_df.rows[i][s] # 0
                   THEN Count(arg_scbs, s) ELSE 0

C6_Witness ==
    /\ fn = "remove_inactive"
    /\ arg_scbs = <<"CB_CURRENT_2", "CB_CURRENT_1">>
    /\ Len(arg_df.rows) = MaxValueRows
    /\ result = <<"CB_CURRENT_1">>

\* C7: in the modes Today, Last 7 Days and Last 15 Days the date-range filter
\* keeps exactly the rows whose timestamp is at least the largest timestamp
\* of the table minus 0, 7, 15 days, in their order; mode All keeps the table.
C7_TimeFilter ==
    fn = "filter_by_range" =>
        LET stamps == {arg_df.rows[i]["DATETIME"] : i \in DOMAIN arg_df.rows}
                          \ {NaT}
            days   == CASE arg_opt = "Today" -> 0
                        [] arg_opt = "Last 7 Days" -> 7
                        [] arg_opt = "Last 15 Days" -> 15
                        [] OTHER -> 0
            Kept(r) == /\ r["DATETIME"] # NaT
                       /\ \E m \in stamps :
                              /\ \A x \in stamps : x <= m
                              /\ r["DATETIME"] >= m - days * TicksPerDay
        IN  IF arg_opt = "All" THEN result = arg_df
            ELSE /\ result.cols = arg_df.cols
                 /\ result.rows = SelectSeq(arg_df.rows, Kept)

C7_Witness ==
    /\ fn = "filter_by_range" /\ arg_opt = "Last 7 Days"
    /\ Len(arg_df.rows) = 3
    /\ arg_df.rows[1]["DATETIME"] = Horizon - 7 * TicksPerDay - 1
    /\ arg_df.rows[2]["DATETIME"] = Horizon - 7 * TicksPerDay
    /\ arg_df.rows[3]["DATETIME"] = Horizon
    /\ Len(result.rows) = 2
    /\ result.rows[1] = arg_df.rows[2]

====
